---- MODULE Spec2Model ----
(***************************************************************************)
(* Model of the stress-test server (src/stress-worker.js): the load        *)
(* generator (stressCPU / stopStress and the worker event handlers), the   *)
(* worker thread's message handler, and the utilization sampler            *)
(* (calcCpuUsagePercent behind GET /metrics).                               *)
(*                                                                         *)
(* The main thread runs one handler at a time (Node's event loop), so each *)
(* HTTP handler and each worker event handler is one action.  Worker       *)
(* threads run in parallel; each of their steps is an action of its own.   *)
(***************************************************************************)
EXTENDS Integers, Sequences, FiniteSets, TLC

(* ------------------------------ bounds -------------------------------- *)

\* os.cpus().length of the modelled host
NumCPUs == 2
\* how many Worker objects may be constructed in one behaviour; stressCPU
\* runs only while a whole campaign of NumCPUs workers still fits
MaxWorkers == 5
\* how many times Date.now() may advance in one behaviour
MaxTicks == 1
\* largest counter value of a per-core timing tuple (sampler-only runs)
MaxTime == 2

(* ------------------------- program constants -------------------------- *)

\* the `|| 60000` fallback of the worker, of stressCPU and of POST /stress
DefaultDuration == 60000

MaxNow == DefaultDuration * MaxTicks
WorkerIds == 1..MaxWorkers

VARIABLES
    stressWorkers,    \* the active handle set: a sequence of worker ids
    isStressing,      \* the process-wide flag
    lastCpuSnapshot,  \* the retained previous os.cpus() reading
    workers,          \* every Worker object ever constructed, by id
    starts,           \* number of stressCPU calls so far (campaign counter)
    now,              \* Date.now()
    last              \* the last handler the main thread ran, and its outcome

vars == <<stressWorkers, isStressing, lastCpuSnapshot, workers, starts, now, last>>

(* --------------------------- JavaScript values ------------------------ *)

Undefined == [t |-> "undefined", v |-> 0]
NaN == [t |-> "nan", v |-> 0]
\* a non-numeric, non-empty string such as "abc"
BadString == [t |-> "string", v |-> 0]
Num(n) == [t |-> "number", v |-> n]

\* JavaScript truthiness, as used by `x || 60000`
Truthy(x) == \/ x.t = "string"
             \/ x.t = "number" /\ x.v # 0

\* a handler that forgets the `|| 60000` fallback
OrElseNoDefault(x, d) == x

\* x || d
OrElse(x, d) == IF Truthy(x) THEN x ELSE d

\* Number(x)
ToNumber(x) == IF x.t = "number" THEN x ELSE NaN

(* ------------------------------- workers ------------------------------ *)

\* A Worker object.  phase is the state of its thread:
\*   none      not constructed yet
\*   queued    constructed, the start message not yet received by the thread
\*   spinning  inside the busy loop, until Date.now() >= end
\*   finished  loop left, {done: true} posted and not yet handled by the parent
\*   stopping  terminate() called on it, 'exit' not yet emitted
\*   errored   uncaught exception in the thread, 'exit' not yet emitted
\*   exited    'exit' emitted and handled
NoWorker == [phase |-> "none", msg |-> Undefined, end |-> 0, sent |-> 0]

\* the campaign (stressCPU call) that constructed worker w
Campaign(w) == ((w - 1) \div NumCPUs) + 1

Spawned(w) == workers[w].phase # "none"

Range(s) == {s[i] : i \in 1..Len(s)}

\* s.filter(keep), keeping the order
RECURSIVE Filter(_, _)
Filter(s, w) ==
    IF s = <<>> THEN <<>>
    ELSE IF Head(s) # w THEN <<Head(s)>> \o Filter(Tail(s), w)
    ELSE Filter(Tail(s), w)

(* ------------------- main-thread state and its handlers --------------- *)

\* The part of the state the load generator's code reads and writes, as one
\* value, so that a handler is the composition of its statements.
Main == [stressWorkers |-> stressWorkers, isStressing |-> isStressing,
         workers |-> workers]

\* a terminate() that never reaches the thread
TerminateNot(ws, w) == ws

\* w.terminate(): the thread is stopped as soon as possible; on a worker that
\* has already exited it does nothing.  A {done: true} message of w still
\* pending is dropped with the thread: its handler would only call
\* terminate() again.
Terminate(ws, w) ==
    IF ws[w].phase \in {"none", "exited"} THEN ws
    ELSE [ws EXCEPT ![w] = [@ EXCEPT !.phase = "stopping", !.msg = Undefined,
                                     !.end = 0]]

\* stressWorkers.forEach((w) => w.terminate())
RECURSIVE TerminateAll(_, _)
TerminateAll(ws, hs) ==
    IF hs = <<>> THEN ws
    ELSE TerminateAll(Terminate(ws, Head(hs)), Tail(hs))

\* a stopStress that clears the set and the flag but terminates no worker
stopStressNoTerminate(m) ==
    [m EXCEPT !.stressWorkers = <<>>,
              !.isStressing = FALSE]

\* a stopStress that terminates the workers but keeps the set and the flag
stopStressNoClear(m) ==
    [m EXCEPT !.workers = TerminateAll(m.workers, m.stressWorkers)]

\* function stopStress()
stopStress(m) ==
    [m EXCEPT !.workers = TerminateAll(m.workers, m.stressWorkers),
              !.stressWorkers = <<>>,
              !.isStressing = FALSE]

\* a loop body that posts the start message twice
SpawnOneTwice(m, w, durationMs) ==
    [m EXCEPT !.workers = [@ EXCEPT ![w] = [phase |-> "queued", msg |-> durationMs,
                                            end |-> 0, sent |-> 2]],
              !.stressWorkers = Append(@, w)]

\* one iteration of stressCPU's loop: new Worker(...), the three handlers
\* registered, stressWorkers.push(worker), worker.postMessage({durationMs})
SpawnOne(m, w, durationMs) ==
    [m EXCEPT !.workers = [@ EXCEPT ![w] = [phase |-> "queued", msg |-> durationMs,
                                            end |-> 0, sent |-> 1]],
              !.stressWorkers = Append(@, w)]

\* for (let i = 0; i < numCPUs; i++) { ... }; base is the id before the first
\* worker of this call
RECURSIVE SpawnLoop(_, _, _, _, _)
SpawnLoop(m, i, numCPUs, base, durationMs) ==
    IF i < numCPUs
    THEN SpawnLoop(SpawnOne(m, base + i + 1, durationMs), i + 1, numCPUs, base,
                   durationMs)
    ELSE m

\* function stressCPU(durationMs = 60000), called for the (campaign)-th time
stressCPU(m, durationMs, campaign) ==
    LET d == IF durationMs = Undefined THEN Num(DefaultDuration) ELSE durationMs
        numCPUs == NumCPUs
        m1 == [m EXCEPT !.isStressing = TRUE]
        m2 == stopStress(m1)
    IN SpawnLoop(m2, 0, numCPUs, (campaign - 1) * NumCPUs, d)

\* an exit handler that aborts the whole campaign
onExitAbortAll(m, w) ==
    stopStress([m EXCEPT !.workers = [@ EXCEPT ![w] = [@ EXCEPT !.phase = "exited",
                                                               !.msg = Undefined,
                                                               !.end = 0]]])

\* an exit handler that drops the newest handle instead of its own
onExitPop(m, w) ==
    LET n == Len(m.stressWorkers)
        left == IF n = 0 THEN <<>> ELSE SubSeq(m.stressWorkers, 1, n - 1)
    IN [m EXCEPT !.stressWorkers = left,
                 !.isStressing = IF Len(left) = 0 THEN FALSE ELSE @,
                 !.workers = [@ EXCEPT ![w] = [@ EXCEPT !.phase = "exited",
                                                        !.msg = Undefined,
                                                        !.end = 0]]]

\* worker.on("exit", ...) of worker w
onExit(m, w) ==
    LET left == Filter(m.stressWorkers, w)
    IN [m EXCEPT !.stressWorkers = left,
                 !.isStressing = IF Len(left) = 0 THEN FALSE ELSE @,
                 !.workers = [@ EXCEPT ![w] = [@ EXCEPT !.phase = "exited",
                                                        !.msg = Undefined,
                                                        !.end = 0]]]

\* a message handler that ignores {done: true}
onMessageIgnore(m, w) == m

\* worker.on("message", (msg) => { if (msg && msg.done) worker.terminate() })
onMessage(m, w) ==
    [m EXCEPT !.workers = Terminate(@, w)]

SetMain(m) ==
    /\ stressWorkers' = m.stressWorkers
    /\ isStressing' = m.isStressing
    /\ workers' = m.workers

(* ------------------------- utilization sampler ------------------------ *)

\* one element of os.cpus(): its .times
Times(user, nice, sys, idle, irq) ==
    [user |-> user, nice |-> nice, sys |-> sys, idle |-> idle, irq |-> irq]

\* A usage value is the exact rational n/d (d > 0) of the JavaScript number.
Rat(n, d) == [n |-> n, d |-> d]

\* no clamping
ClampNot(u) == u

\* Math.max(0, Math.min(100, usage))
Clamp(u) ==
    IF u.n < 0 THEN Rat(0, u.d)
    ELSE IF u.n > 100 * u.d THEN Rat(100 * u.d, u.d)
    ELSE u

\* a callback whose totals leave out the interrupt time
CoreUsageNoIrq(p, c) ==
    LET prevTotal == p.user + p.nice + p.sys + p.idle
        currTotal == c.user + c.nice + c.sys + c.idle
        totalDiff == currTotal - prevTotal
        idleDiff == c.idle - p.idle
    IN IF totalDiff <= 0 THEN Rat(0, 1)
       ELSE Clamp(Rat(100 * (totalDiff - idleDiff), totalDiff))

\* the body of calcCpuUsagePercent's map callback for one core
CoreUsage(p, c) ==
    LET prevTotal == p.user + p.nice + p.sys + p.idle + p.irq
        currTotal == c.user + c.nice + c.sys + c.idle + c.irq
        totalDiff == currTotal - prevTotal
        idleDiff == c.idle - p.idle
    IN IF totalDiff <= 0 THEN Rat(0, 1)
       ELSE Clamp(Rat(100 * (totalDiff - idleDiff), totalDiff))

\* prev[i] is undefined for a core prev does not have, and reading
\* undefined.times throws a TypeError
CalcThrows(prev, curr) == \E i \in 1..Len(curr) : i > Len(prev)

\* function calcCpuUsagePercent(prev, curr), where it does not throw
calcCpuUsagePercent(prev, curr) ==
    [i \in 1..Len(curr) |-> CoreUsage(prev[i], curr[i])]

\* Math.round(u) of a non-negative u: the nearest integer, halves upwards
MathRound(u) == (2 * u.n + u.d) \div (2 * u.d)

(* ------------------------------ readings ------------------------------ *)

\* per-core counters os.cpus() may report while the load generator is
\* exercised: the same reading on every core
SmallTimes == {Times(0, 0, 0, 0, 0), Times(1, 0, 0, 1, 0)}
SmallReadings == {[i \in 1..NumCPUs |-> t] : t \in SmallTimes}

\* per-core counters for the sampler on its own: any order of values, so
\* that counters may also run backwards between two readings
WideTimes ==
    {Times(u, n, s, i, q) : u \in 0..MaxTime, n \in 0..1, s \in 0..1,
                            i \in 0..MaxTime, q \in 0..1}
FewTimes == {Times(0, 0, 0, 0, 0), Times(1, 0, 0, 1, 0), Times(2, 1, 0, 0, 1)}
RECURSIVE SeqsOf(_, _)
SeqsOf(S, n) ==
    IF n = 0 THEN {<<>>}
    ELSE {Append(s, x) : s \in SeqsOf(S, n - 1), x \in S}
\* one-core hosts with any counters; hosts of 2..NumCPUs cores with few
WideReadings ==
    SeqsOf(WideTimes, 1) \cup UNION {SeqsOf(FewTimes, n) : n \in 2..NumCPUs}

(* ------------------------------- actions ------------------------------ *)

NoRequest == [op |-> "none", arg |-> Undefined, success |-> TRUE, body |-> <<>>]

\* req.body?.duration of a POST /stress
Bodies == {Undefined, Num(0), Num(-1), Num(1), BadString}

InitMain ==
    /\ stressWorkers = <<>>
    /\ isStressing = FALSE
    /\ workers = [w \in WorkerIds |-> NoWorker]
    /\ starts = 0
    /\ now = 0
    /\ last = NoRequest

Init ==
    /\ InitMain
    /\ lastCpuSnapshot \in SmallReadings

\* app.post("/stress", ...)
PostStress(arg) ==
    LET duration == ToNumber(OrElse(arg, Num(DefaultDuration)))
    IN /\ (starts + 1) * NumCPUs <= MaxWorkers
       /\ IF isStressing
          THEN /\ last' = [op |-> "stress", arg |-> arg, success |-> FALSE,
                           body |-> <<>>]
               /\ UNCHANGED <<stressWorkers, isStressing, workers, starts>>
          ELSE /\ SetMain(stressCPU(Main, duration, starts + 1))
               /\ starts' = starts + 1
               /\ last' = [op |-> "stress", arg |-> arg, success |-> TRUE,
                           body |-> duration]
       /\ UNCHANGED <<lastCpuSnapshot, now>>

\* a stop handler that also takes a fresh baseline reading
PostStopStressReseed ==
    /\ SetMain(stopStress(Main))
    /\ last' = [op |-> "stop", arg |-> Undefined, success |-> TRUE, body |-> <<>>]
    /\ lastCpuSnapshot' \in SmallReadings
    /\ UNCHANGED <<starts, now>>

\* app.post("/stop-stress", ...)
PostStopStress ==
    /\ SetMain(stopStress(Main))
    /\ last' = [op |-> "stop", arg |-> Undefined, success |-> TRUE, body |-> <<>>]
    /\ UNCHANGED <<lastCpuSnapshot, starts, now>>

\* app.get("/metrics", ...), os.cpus() returning curr
GetMetrics(curr) ==
    /\ IF CalcThrows(lastCpuSnapshot, curr)
       THEN /\ last' = [op |-> "metrics", arg |-> Undefined, success |-> FALSE,
                        body |-> <<>>]
            /\ UNCHANGED lastCpuSnapshot
       ELSE LET usageArr == calcCpuUsagePercent(lastCpuSnapshot, curr)
            IN /\ lastCpuSnapshot' = curr
               /\ last' = [op |-> "metrics", arg |-> Undefined, success |-> TRUE,
                           body |-> [isStressing |-> isStressing,
                                     cpus |-> [i \in 1..Len(usageArr) |->
                                                 [core |-> i - 1,
                                                  usage |-> MathRound(usageArr[i])]],
                                     totalCPUs |-> Len(curr),
                                     usageArr |-> usageArr,
                                     prev |-> lastCpuSnapshot]]
    /\ UNCHANGED <<stressWorkers, isStressing, workers, starts, now>>

\* app.get("/health", ...)
GetHealth ==
    /\ last' = [op |-> "health", arg |-> Undefined, success |-> TRUE,
                body |-> [status |-> "healthy"]]
    /\ UNCHANGED <<stressWorkers, isStressing, lastCpuSnapshot, workers, starts, now>>

\* the worker thread receives the start message: parentPort.on("message"),
\* const end = Date.now() + Number(durationMs || 60000)
WorkerReceive(w) ==
    /\ workers[w].phase = "queued"
    /\ LET durationMs == workers[w].msg
           end == now + ToNumber(OrElse(durationMs, Num(DefaultDuration))).v
       IN workers' = [workers EXCEPT ![w] = [@ EXCEPT !.phase = "spinning",
                                                      !.msg = Undefined,
                                                      !.end = end]]
    /\ UNCHANGED <<stressWorkers, isStressing, lastCpuSnapshot, starts, now, last>>

\* a worker whose loop does not wait for the deadline
WorkerDoneEarly(w) ==
    /\ workers[w].phase = "spinning"
    /\ workers' = [workers EXCEPT ![w] = [@ EXCEPT !.phase = "finished", !.end = 0]]
    /\ UNCHANGED <<stressWorkers, isStressing, lastCpuSnapshot, starts, now, last>>

\* the worker thread leaves `while (Date.now() < end)` and posts {done: true}
WorkerDone(w) ==
    /\ workers[w].phase = "spinning"
    /\ ~(now < workers[w].end)
    /\ workers' = [workers EXCEPT ![w] = [@ EXCEPT !.phase = "finished", !.end = 0]]
    /\ UNCHANGED <<stressWorkers, isStressing, lastCpuSnapshot, starts, now, last>>

\* the parent handles {done: true} of worker w
WorkerMessage(w) ==
    /\ workers[w].phase = "finished"
    /\ SetMain(onMessage(Main, w))
    /\ last' = [op |-> "message", arg |-> Undefined, success |-> TRUE, body |-> <<>>]
    /\ UNCHANGED <<lastCpuSnapshot, starts, now>>

\* an uncaught exception in worker w's thread: the parent's "error" handler
\* logs it; the runtime ends the thread and will emit "exit"
WorkerError(w) ==
    /\ workers[w].phase \in {"queued", "spinning"}
    /\ workers' = [workers EXCEPT ![w] = [@ EXCEPT !.phase = "errored",
                                                   !.msg = Undefined, !.end = 0]]
    /\ last' = [op |-> "error", arg |-> Undefined, success |-> TRUE, body |-> <<>>]
    /\ UNCHANGED <<stressWorkers, isStressing, lastCpuSnapshot, starts, now>>

\* "exit" of worker w is emitted and handled.  last notes whether w had
\* errored, whether its handle was still in the set, and whether the handler
\* logged "CPU stress test completed".
WorkerExit(w) ==
    /\ workers[w].phase \in {"stopping", "errored"}
    /\ SetMain(onExit(Main, w))
    /\ last' = [op |-> "exit", arg |-> Undefined, success |-> TRUE,
                body |-> [errored |-> workers[w].phase = "errored",
                          held |-> w \in Range(stressWorkers),
                          completed |-> Len(Filter(stressWorkers, w)) = 0]]
    /\ UNCHANGED <<lastCpuSnapshot, starts, now>>

\* Date.now() advances; the clock is observed every DefaultDuration ms
Tick ==
    /\ now + DefaultDuration <= MaxNow
    /\ now' = now + DefaultDuration
    /\ UNCHANGED <<stressWorkers, isStressing, lastCpuSnapshot, workers, starts, last>>

Next ==
    \/ \E arg \in Bodies : PostStress(arg)
    \/ PostStopStress
    \/ \E curr \in SmallReadings : GetMetrics(curr)
    \/ GetHealth
    \/ \E w \in WorkerIds : WorkerReceive(w)
    \/ \E w \in WorkerIds : WorkerDone(w)
    \/ \E w \in WorkerIds : WorkerMessage(w)
    \/ \E w \in WorkerIds : WorkerError(w)
    \/ \E w \in WorkerIds : WorkerExit(w)
    \/ Tick

Spec == Init /\ [][Next]_vars

\* a startup that seeds no reading
InitSamplerUnseeded ==
    /\ InitMain
    /\ lastCpuSnapshot = <<>>

\* the sampler on its own, over any two readings
InitSampler ==
    /\ InitMain
    /\ lastCpuSnapshot \in WideReadings

NextSampler == \E curr \in WideReadings : GetMetrics(curr)

SamplerSpec == InitSampler /\ [][NextSampler]_vars

\* The load generator on its own (the sampler's requests left out), with the
\* progress the runtime guarantees.
\* The worker threads run in parallel with the main thread and the event loop
\* delivers every queued event: a worker past its deadline posts done, a
\* posted message is handled, and a stopped thread's "exit" is emitted.  The
\* fairness is per kind of step, not per worker.
NextLoad ==
    \/ \E arg \in Bodies : PostStress(arg)
    \/ PostStopStress
    \/ \E w \in WorkerIds : WorkerReceive(w)
    \/ \E w \in WorkerIds : WorkerDone(w)
    \/ \E w \in WorkerIds : WorkerMessage(w)
    \/ \E w \in WorkerIds : WorkerError(w)
    \/ \E w \in WorkerIds : WorkerExit(w)
    \/ Tick

\* lastCpuSnapshot plays no part in the load generator: one startup reading
InitLoad ==
    /\ InitMain
    /\ lastCpuSnapshot = [i \in 1..NumCPUs |-> Times(0, 0, 0, 0, 0)]

LiveSpec ==
    /\ InitLoad /\ [][NextLoad]_vars
    /\ WF_vars(\E w \in WorkerIds : WorkerDone(w))
    /\ WF_vars(\E w \in WorkerIds : WorkerMessage(w))
    /\ WF_vars(\E w \in WorkerIds : WorkerExit(w))

(* ------------------------------- claims ------------------------------- *)

Handles == Range(stressWorkers)
Idle == stressWorkers = <<>> /\ ~isStressing
MaxCampaigns == MaxWorkers \div NumCPUs

Positive(arg) == arg.t = "number" /\ arg.v > 0
NonPositiveOrMissing(arg) == arg = Undefined \/ (arg.t = "number" /\ arg.v <= 0)

\* C1: in every reachable state isStressing is true exactly when the handle
\* set is non-empty.
C1_FlagIffHandles == isStressing <=> (stressWorkers # <<>>)

\* C2: a Start(d), d > 0, issued while idle leaves isStressing true and
\* exactly NumCPUs handles, and a metrics read taken while all of them are
\* still in the set reports isStressing = true.
C2_StartSetsFlag ==
    [][/\ \A arg \in Bodies :
            (Positive(arg) /\ Idle /\ PostStress(arg))
                => (isStressing' /\ Len(stressWorkers') = NumCPUs)
       /\ \A curr \in SmallReadings :
            (GetMetrics(curr) /\ Len(stressWorkers) = NumCPUs)
                => last'.body.isStressing]_vars

\* C3: a Start arriving while workers are in the handle set is rejected and
\* leaves the handle set and every worker as they were.
C3_StartWhileActiveRejected ==
    [][\A arg \in Bodies :
         (PostStress(arg) /\ stressWorkers # <<>>)
             => /\ last'.success = FALSE
                /\ UNCHANGED <<stressWorkers, workers>>]_vars

\* C4: once every worker in the handle set has reached its deadline, then,
\* unless a later Start intervenes, the system reaches the state where the
\* handle set is empty and isStressing is false.
DeadlineReached(w) ==
    \/ workers[w].phase = "spinning" /\ now >= workers[w].end
    \/ workers[w].phase \in {"finished", "stopping", "errored"}
C4_EventuallyIdle ==
    \A c \in 1..MaxCampaigns :
        (/\ starts = c
         /\ stressWorkers # <<>>
         /\ \A w \in Handles : DeadlineReached(w))
            ~> (Idle \/ starts # c)
\* the last handle was removed by its worker's own exit, after its deadline
C4_Witness ==
    /\ last.op = "exit"
    /\ last.body.held /\ last.body.completed /\ ~last.body.errored
    /\ Idle

\* C5: Stop, in any state, leaves the handle set empty and isStressing false,
\* has requested termination of every worker that was in the set, reports
\* success, and changes nothing when the system was already idle.
C5_StopLeavesIdle ==
    [][PostStopStress
         => /\ stressWorkers' = <<>>
            /\ isStressing' = FALSE
            /\ \A w \in Handles : workers'[w].phase = "stopping"
            /\ last'.success
            /\ Idle => UNCHANGED <<stressWorkers, isStressing, workers>>]_vars
\* a Stop that cut a campaign short
C5_Witness ==
    /\ last.op = "stop"
    /\ Idle
    /\ \E w \in WorkerIds : Campaign(w) = starts /\ workers[w].phase = "stopping"

\* C6 (as stated): a Start whose duration is non-positive or missing is
\* rejected and spawns nothing.
C6_InvalidDurationRejected ==
    [][\A arg \in Bodies :
         (NonPositiveOrMissing(arg) /\ PostStress(arg))
             => /\ last'.success = FALSE
                /\ UNCHANGED <<stressWorkers, isStressing, workers>>]_vars

\* C6 (amended): a Start whose duration is non-positive or missing is not
\* rejected for it: a missing or zero duration is replaced by 60000 ms, a
\* negative one is kept, and unless isStressing is true the request succeeds
\* and spawns NumCPUs workers, each sent one start message with that duration.
C6_InvalidDurationAccepted ==
    [][\A arg \in Bodies :
         (NonPositiveOrMissing(arg) /\ PostStress(arg) /\ ~isStressing)
             => /\ last'.success
                /\ last'.body = (IF arg.t = "number" /\ arg.v < 0 THEN arg
                                 ELSE Num(DefaultDuration))
                /\ Len(stressWorkers') = NumCPUs
                /\ \A w \in Range(stressWorkers') :
                     /\ workers[w].phase = "none"
                     /\ workers'[w].phase = "queued"
                     /\ workers'[w].sent = 1
                     /\ workers'[w].msg = last'.body]_vars
\* a Start with a negative duration has just spawned its workers
C6_Witness ==
    /\ last.op = "stress"
    /\ last.arg = Num(-1)
    /\ last.success
    /\ Len(stressWorkers) = NumCPUs

\* C7: every usage value a metrics read returns, unrounded and rounded, is
\* within [0, 100], whatever the two snapshots.
C7_UsageInRange ==
    (last.op = "metrics" /\ last.success)
        => \A i \in 1..Len(last.body.usageArr) :
             /\ last.body.usageArr[i].d > 0
             /\ 0 <= last.body.usageArr[i].n
             /\ last.body.usageArr[i].n <= 100 * last.body.usageArr[i].d
             /\ last.body.cpus[i].usage \in 0..100
\* a read over a pair whose idle counter ran backwards while the total grew
C7_Witness ==
    /\ last.op = "metrics" /\ last.success
    /\ \E i \in 1..Len(lastCpuSnapshot) :
         LET p == last.body.prev[i]
             c == lastCpuSnapshot[i]
         IN /\ c.idle < p.idle
            /\ c.user + c.nice + c.sys + c.idle + c.irq
                 > p.user + p.nice + p.sys + p.idle + p.irq
            /\ last.body.cpus[i].usage = 100

\* C8: the handle set only holds workers of the latest Start, and every
\* worker of an earlier Start has had termination requested or has exited.
C8_OneCampaign ==
    /\ \A w \in Handles : Campaign(w) = starts
    /\ \A w \in WorkerIds :
         (Spawned(w) /\ Campaign(w) < starts)
             => workers[w].phase \in {"stopping", "exited"}
\* a second campaign is in the set while a worker of the first is stopping
C8_Witness ==
    /\ starts = 2
    /\ Len(stressWorkers) = NumCPUs
    /\ \E w \in WorkerIds : Campaign(w) = 1 /\ workers[w].phase = "stopping"

\* C9: a worker's error changes neither the handle set nor any sibling; the
\* exit that follows removes that worker's handle and nothing else, and
\* terminates no sibling.
C9_ErrorDoesNotCascade ==
    [][\A w \in WorkerIds :
         /\ WorkerError(w)
              => /\ UNCHANGED <<stressWorkers, isStressing>>
                 /\ \A v \in WorkerIds \ {w} : workers'[v] = workers[v]
         /\ (WorkerExit(w) /\ workers[w].phase = "errored")
              => /\ Range(stressWorkers') = Handles \ {w}
                 /\ Len(stressWorkers') = Cardinality(Handles \ {w})
                 /\ \A v \in WorkerIds \ {w} : workers'[v] = workers[v]]_vars
\* an errored worker's handle has been removed and a sibling is still held
C9_Witness ==
    /\ last.op = "exit"
    /\ last.body.errored /\ last.body.held
    /\ \E v \in Handles : workers[v].phase \in {"queued", "spinning"}

\* C10: the exit of a worker whose handle is no longer in the set (it was
\* stopped) removes no handle, leaves isStressing alone while handles
\* remain, and touches no other worker.
C10_StaleExitHarmless ==
    [][\A w \in WorkerIds :
         (WorkerExit(w) /\ w \notin Handles)
             => /\ stressWorkers' = stressWorkers
                /\ (stressWorkers # <<>> => isStressing' = isStressing)
                /\ \A v \in WorkerIds \ {w} : workers'[v] = workers[v]]_vars
\* a stopped worker of the first campaign exited while the second is held
C10_Witness ==
    /\ last.op = "exit"
    /\ ~last.body.held
    /\ starts = 2
    /\ Len(stressWorkers) = NumCPUs
    /\ \E w \in WorkerIds : Campaign(w) = 1 /\ workers[w].phase = "exited"

\* C11 (as stated): after every metrics read the retained snapshot is the one
\* that read took, and a returned usage is computed from the snapshot retained
\* by the read before and the one just taken.
C11_SnapshotReplaced ==
    [][\A curr \in WideReadings :
         GetMetrics(curr)
             => /\ lastCpuSnapshot' = curr
                /\ last'.success => last'.body.prev = lastCpuSnapshot]_vars

\* the sum user + nice + sys + idle + irq of one core's counters
TotalOf(t) == t.user + t.nice + t.sys + t.idle + t.irq
Min(a, b) == IF a < b THEN a ELSE b
Max(a, b) == IF a > b THEN a ELSE b
\* u = (1 - idleDelta/totalDelta) * 100 clamped to [0, 100], or 0 when
\* totalDelta <= 0, stated without division: with T = totalDelta and
\* I = idleDelta, u.n / u.d = max(0, min(100 T, 100 (T - I))) / T
UsageMatches(p, c, u) ==
    LET T == TotalOf(c) - TotalOf(p)
        I == c.idle - p.idle
    IN /\ u.d > 0
       /\ IF T <= 0 THEN u.n = 0
          ELSE u.n * T = u.d * Max(0, Min(100 * T, 100 * (T - I)))

\* C12: each core's usage in a metrics response is (1 - idleDelta/totalDelta)
\* * 100 clamped to [0, 100] over the previous and the current snapshot, and 0
\* when totalDelta <= 0.
C12_UsageFormula ==
    (last.op = "metrics" /\ last.success)
        => \A i \in 1..Len(lastCpuSnapshot) :
             UsageMatches(last.body.prev[i], lastCpuSnapshot[i],
                          last.body.usageArr[i])
\* a read with a core strictly between idle and busy, its interrupt time
\* having grown, next to none with a usable delta
C12_Witness ==
    /\ last.op = "metrics" /\ last.success
    /\ \E i \in 1..Len(lastCpuSnapshot) :
         /\ 0 < last.body.usageArr[i].n
         /\ last.body.usageArr[i].n < 100 * last.body.usageArr[i].d
         /\ lastCpuSnapshot[i].irq > last.body.prev[i].irq

\* C13: a snapshot is retained from startup on, in every state, and the usage
\* the first metrics read returns is the delta against that startup snapshot.
C13_SeededBaseline ==
    [][/\ lastCpuSnapshot \in WideReadings
       /\ lastCpuSnapshot' \in WideReadings
       /\ (last = NoRequest /\ last'.op = "metrics" /\ last'.success)
            => /\ Len(last'.body.usageArr) = Len(lastCpuSnapshot')
               /\ \A i \in 1..Len(lastCpuSnapshot') :
                    UsageMatches(lastCpuSnapshot[i], lastCpuSnapshot'[i],
                                 last'.body.usageArr[i])]_vars
\* a read has returned a non-zero usage against a retained snapshot other
\* than the one it took
C13_Witness ==
    /\ last.op = "metrics" /\ last.success
    /\ last.body.prev # lastCpuSnapshot
    /\ \E i \in 1..Len(lastCpuSnapshot) : last.body.usageArr[i].n > 0

\* C14: a metrics read leaves isStressing, the handle set and the workers as
\* they were; Start, Stop and the worker events leave the retained snapshot
\* as it was; a health check changes none of them.
C14_ComponentsDisjoint ==
    [][/\ \/ UNCHANGED <<stressWorkers, isStressing, workers>>
          \/ ~(\E curr \in SmallReadings : GetMetrics(curr))
       /\ \/ UNCHANGED lastCpuSnapshot
          \/ ~(\/ \E arg \in Bodies : PostStress(arg)
               \/ PostStopStress
               \/ \E w \in WorkerIds :
                    WorkerMessage(w) \/ WorkerError(w) \/ WorkerExit(w))
       /\ \/ UNCHANGED <<stressWorkers, isStressing, workers, lastCpuSnapshot>>
          \/ ~GetHealth]_vars
\* a metrics read has replaced the snapshot while a campaign is held
C14_Witness ==
    /\ last.op = "metrics" /\ last.success
    /\ last.body.prev # lastCpuSnapshot
    /\ Len(stressWorkers) = NumCPUs

\* C15: every worker ever constructed whose handle is not in the set has
\* exited or is being terminated, and every constructed worker that is out
\* of the set, or past its deadline, eventually exits: such a worker stays
\* pending until it exits, and no worker stays pending for ever.
Pending(w) ==
    /\ Spawned(w)
    /\ workers[w].phase # "exited"
    /\ w \notin Handles \/ DeadlineReached(w)
C16_RemovedOnlyAfterDeadline ==
    [][\A w \in WorkerIds :
         /\ (workers[w].phase # "finished" /\ workers'[w].phase = "finished")
              => (workers[w].phase = "spinning" /\ now >= workers[w].end)
         /\ (/\ w \in Handles /\ w \in Range(stressWorkers')
             /\ workers[w].phase # "stopping" /\ workers'[w].phase = "stopping")
              => workers[w].phase = "finished"
         /\ (/\ w \in Handles /\ w \notin Range(stressWorkers')
             /\ workers[w].phase # "errored"
             /\ ~PostStopStress
             /\ ~(\E arg \in Bodies : PostStress(arg)))
              => /\ workers[w].phase = "stopping"
                 /\ workers'[w].phase = "exited"
                 /\ Range(stressWorkers') = Handles \ {w}]_vars
\* a worker that ran to its deadline has exited and left a sibling held
C16_Witness ==
    /\ last.op = "exit"
    /\ last.body.held /\ ~last.body.errored /\ ~last.body.completed
    /\ now >= DefaultDuration
    /\ stressWorkers # <<>>

\* C17: the handle set never holds more than NumCPUs workers, holds none
\* twice, and each worker in it was sent exactly one start message.
C17_AtMostCoreCount ==
    /\ Len(stressWorkers) <= NumCPUs
    /\ Cardinality(Handles) = Len(stressWorkers)
    /\ \A w \in Handles : workers[w].sent = 1
\* a second campaign fills the set and one of its workers got its message
C17_Witness ==
    /\ starts = 2
    /\ Len(stressWorkers) = NumCPUs
    /\ \E w \in Handles : workers[w].phase = "spinning"

\* C18: a metrics read never fails and returns one usage per core of the
\* reading it took, in core order, with totalCPUs that reading's length,
\* whatever the retained snapshot's length.
C18_SampleNeverFails ==
    [][\A curr \in WideReadings :
         GetMetrics(curr)
             => /\ last'.success
                /\ last'.body.totalCPUs = Len(curr)
                /\ Len(last'.body.cpus) = Len(curr)
                /\ \A i \in 1..Len(curr) : last'.body.cpus[i].core = i - 1]_vars

====
